---- MODULE Spec2Model ----
(***************************************************************************)
(* Model of src/server/config.ts: the Config singleton, its three          *)
(* initialisation strategies and the bounded retry loop of                 *)
(* Config.initializeFromConfigService.                                     *)
(*                                                                         *)
(* JavaScript runs one callback at a time: code between two awaits is one  *)
(* atomic action.  initializeFromConfigService has three await points (the *)
(* discovery fetch, the settings fetch and the retry delay), so one call   *)
(* is a small process whose position is pc[c].  initializeFromFile and     *)
(* initializeFromEnvironment have no await and run as one action.          *)
(*                                                                         *)
(* A Config object is modelled as a record carrying the identity `id` of   *)
(* its allocation; no code of the class assigns a field of an existing     *)
(* Config, so a reference and the record it points to go together.         *)
(*                                                                         *)
(* Strings are TLA+ strings; a concatenation a + b is the tuple <<a, b>>.  *)
(***************************************************************************)
EXTENDS Integers, Sequences, FiniteSets, TLC

\* ------------------------------------------------------------------ bounds
\* Number of Config objects the runs may allocate (ids 1..MaxConfigs).
MaxConfigs == 2
\* Cap of the history counter discoveryFetches; the loop itself stops at 60.
MaxFetches == 61
\* Failed attempts of one call in the runs in which two calls overlap.
MaxConcFailures == 2

\* --------------------------------------------------------- program values
\* let numRetries = 60 (config.ts:74)
InitialNumRetries == 60

\* JavaScript undefined for a string-valued slot.
Undefined == "<undefined>"
\* private static instance: Config = null (config.ts:40)
NULL == [null |-> TRUE]
\* The optional constructor parameter Auth when it is not passed.
NoAuth == [undefined |-> TRUE]

\* !x for the string-or-undefined values of the model.
Falsy(x) == x = Undefined \/ x = ""

\* Activations of initializeFromConfigService: the one of process start-up,
\* and a second one for the runs in which two calls overlap.
Calls == {"c1", "c2"}
Startup == {"c1"}

InProgress == {"awaitDiscovery", "awaitSettings", "delay"}
Terminal == {"returned", "thrown"}

\* ---------------------------------------------------------- input domains
ConfigUrls == {"http://config"}
EnvUrls == {Undefined, "", "http://config"}
EnvPorts == {Undefined, "80"}
EnvConnStrs == {Undefined, "Foo=bar", "HostName=env"}
Envs == [CONFIG_URL : EnvUrls, PORT : EnvPorts, IOTHUB_CONNECTION_STRING : EnvConnStrs]
\* The same with the variables also set to the empty string, for the runs
\* of initializeFromEnvironment alone.
AnyEnvs ==
    [CONFIG_URL : {Undefined}, PORT : {Undefined, "", "80"},
     IOTHUB_CONNECTION_STRING : EnvConnStrs \cup {""}]
NoEnv == [read |-> FALSE]

\* user-config.json: absent, or a document with the four fields.
NoFile == [exists |-> FALSE]
FileConnStrs == {Undefined, "Foo=bar", "HostName=f", "x;hostname=f"}
UserConfig(connStr, reporting, level, p) ==
    [exists |-> TRUE, IOTHUB_CONNECTION_STRING |-> connStr,
     CONSOLE_REPORTING |-> reporting, LOG_LEVEL |-> level, PORT |-> p]
UserConfigs ==
    {NoFile}
    \cup {UserConfig(s, Undefined, Undefined, Undefined) : s \in FileConnStrs}
    \cup {UserConfig("HostName=f", r, l, p) :
             r \in {Undefined, "server"}, l \in {Undefined, "info"}, p \in {Undefined, "8080"}}
\* The same with more connection strings and with options left empty, for
\* the runs of initializeFromFile alone.
AnyFileConnStrs ==
    FileConnStrs \cup {"", "hostname=abc", "xHostName=f", "a=b;HOSTNAME=c", "HostName"}
AnyUserConfigs ==
    {NoFile}
    \cup {UserConfig(s, Undefined, Undefined, Undefined) : s \in AnyFileConnStrs}
    \cup {UserConfig(s, r, l, p) :
             s \in {"HostName=f", "a=b;HOSTNAME=c"}, r \in {Undefined, "", "server"},
             l \in {Undefined, "", "info"}, p \in {Undefined, "", "8080"}}
NoFileRead == [read |-> FALSE]

\* What request.get hands to its callback: (err, response, body).
NoErr == <<>>
NoBody == [undefined |-> TRUE]
NetworkError == <<"Error: connect ECONNREFUSED">>

Link(h) == [href |-> h]
SettingsHref == "/api/settings"
DiscoveryBody(h) ==
    [_links |-> [r \in {"self", "settings:list"} |->
                    IF r = "self" THEN Link("/api/discovery") ELSE Link(h)]]
DiscoveryBodies ==
    { NoBody,
      [name |-> "discovery"],
      [_links |-> [r \in {"self"} |-> Link("/api/discovery")]],
      DiscoveryBody(SettingsHref) }
DiscoveryResponses ==
    {[err |-> NetworkError, body |-> NoBody]} \cup [err : {NoErr}, body : DiscoveryBodies]
\* The same, with discovery resources that give the relation other hrefs.
SettingsHrefs == {SettingsHref, "/api/v2/settings", "/settings?all"}
HrefDiscoveryResponses ==
    DiscoveryResponses \cup [err : {NoErr}, body : {DiscoveryBody(h) : h \in SettingsHrefs}]

DmSettings(cr, ll) == [consoleReporting |-> cr, logLevel |-> ll]
GoodSettings(hub) ==
    [iotHubConnStr |-> hub, loginUrl |-> "http://login", mongoUri |-> "mongodb://db",
     sessionSecret |-> "s3cret", device_management |-> DmSettings("client", "debug")]
SettingsDefects(s) ==
    UNION { { [s EXCEPT !.iotHubConnStr = v], [s EXCEPT !.loginUrl = v],
              [s EXCEPT !.mongoUri = v], [s EXCEPT !.sessionSecret = v],
              [s EXCEPT !.device_management = DmSettings(v, "debug")],
              [s EXCEPT !.device_management = DmSettings("client", v)] }
            : v \in {Undefined, ""} }
    \cup { [s EXCEPT !.device_management = NoBody],
           [s EXCEPT !.loginUrl = Undefined, !.sessionSecret = ""] }
SettingsBodies ==
    {NoBody, GoodSettings("HostName=hub1"), GoodSettings("HostName=hub2")}
    \cup SettingsDefects(GoodSettings("HostName=hub1"))
SettingsResponses ==
    {[err |-> NetworkError, body |-> NoBody]} \cup [err : {NoErr}, body : SettingsBodies]

VARIABLES
    instance,          \* Config.instance
    nextId,            \* identity the next `new Config` gets
    pc,                \* pc[c]: position of activation c
    numRetries,        \* numRetries[c]: the local of the retry loop
    configUrl,         \* configUrl[c], port[c]: the arguments of activation c
    port,
    request,           \* request[c]: URI of the getHal in flight, <<>> if none
    result,            \* result[c]: how activation c settled
    discoveryFetches,  \* history: discovery requests issued by activation c
    fetched,           \* history: URIs requested in the current attempt of c
    warnings,          \* history: console.error lines written by activation c
    lastWarning,       \* history: the last of them
    lastFailure,       \* history: the error the last failed attempt of c raised
    pauses,            \* history: setTimeout delays started by activation c
    timer,             \* timer[c]: milliseconds of the setTimeout pending, 0 if none
    failures,          \* history: attempts of activation c that ended in the catch block
    received,          \* history: settings response of the current attempt of c
    discovered,        \* history: discovery response of the current attempt of c
    lastSuccess,       \* history: strategy and return value of the last success,
                       \* and the strategy of the success before it
    obs                \* history: the call made by the last step, and its outcome

vars == <<instance, nextId, pc, numRetries, configUrl, port, request, result,
          discoveryFetches, fetched, warnings, lastWarning, lastFailure, pauses,
          timer, failures, received, discovered, lastSuccess, obs>>

callVars == <<pc, numRetries, configUrl, port, request, result, discoveryFetches,
              fetched, warnings, lastWarning, lastFailure, pauses, timer, failures,
              received, discovered>>

Pending == [kind |-> "pending"]
Returned(v) == [kind |-> "returned", value |-> v]
Thrown(e) == [kind |-> "thrown", error |-> e]
NoSuccess == [strategy |-> "none"]
Success(strategy, v, before) == [strategy |-> strategy, value |-> v, before |-> before.strategy]
NoResponse == [none |-> TRUE]
NoObs == [op |-> "none"]
NoText == <<>>

Init ==
    /\ instance = NULL
    /\ nextId = 1
    /\ pc = [c \in Calls |-> "idle"]
    /\ numRetries = [c \in Calls |-> 0]
    /\ configUrl = [c \in Calls |-> Undefined]
    /\ port = [c \in Calls |-> Undefined]
    /\ request = [c \in Calls |-> <<>>]
    /\ result = [c \in Calls |-> Pending]
    /\ discoveryFetches = [c \in Calls |-> 0]
    /\ fetched = [c \in Calls |-> <<>>]
    /\ warnings = [c \in Calls |-> 0]
    /\ lastWarning = [c \in Calls |-> NoText]
    /\ lastFailure = [c \in Calls |-> NoText]
    /\ pauses = [c \in Calls |-> 0]
    /\ timer = [c \in Calls |-> 0]
    /\ failures = [c \in Calls |-> 0]
    /\ received = [c \in Calls |-> NoResponse]
    /\ discovered = [c \in Calls |-> NoResponse]
    /\ lastSuccess = NoSuccess
    /\ obs = NoObs

\* ------------------------------------------------------------ Config.get
NotInitializedError == <<"Error: Config has not yet been initialized">>

\* (changed: hands out a copy of the singleton instead of the singleton)
GetOutcomeCopy(inst) ==
    IF inst = NULL THEN Thrown(NotInitializedError) ELSE Returned([inst EXCEPT !.id = 0])

GetOutcome(inst) ==
    IF inst = NULL THEN Thrown(NotInitializedError) ELSE Returned(inst)

Get ==
    /\ obs' = [op |-> "get", outcome |-> GetOutcome(instance)]
    /\ UNCHANGED <<instance, nextId, lastSuccess>>
    /\ UNCHANGED callVars

\* ------------------------------------------------------- the constructor
\* new Config(IotHubConnectionString, ConsoleReporting, LogLevel, Port, Auth?)
NewConfig(id, connStr, reporting, level, p, auth) ==
    [id |-> id, IotHubConnectionString |-> connStr, ConsoleReporting |-> reporting,
     LogLevel |-> level, Port |-> p, Auth |-> auth]

\* a || b
OrElse(a, b) == IF Falsy(a) THEN b ELSE a

\* A resolution may start when an identity is left for the Config it may
\* allocate and, resolution being one sequential operation of process
\* start-up, no other resolution is under way.
CanStart == nextId <= MaxConfigs /\ \A c \in Calls : pc[c] = "idle"

\* --------------------------------------------- Config.initializeFromFile
userConfigFile == "../../user-config.json"

\* The characters of the strings a user-config.json of the model may hold;
\* RegExp.test converts its argument to a string, undefined to "undefined".
Chars(s) ==
    CASE s = "Foo=bar" -> <<"F", "o", "o", "=", "b", "a", "r">>
      [] s = "HostName=f" -> <<"H", "o", "s", "t", "N", "a", "m", "e", "=", "f">>
      [] s = "x;hostname=f" -> <<"x", ";", "h", "o", "s", "t", "n", "a", "m", "e", "=", "f">>
      [] s = "hostname=abc" ->
            <<"h", "o", "s", "t", "n", "a", "m", "e", "=", "a", "b", "c">>
      [] s = "xHostName=f" -> <<"x", "H", "o", "s", "t", "N", "a", "m", "e", "=", "f">>
      [] s = "a=b;HOSTNAME=c" ->
            <<"a", "=", "b", ";", "H", "O", "S", "T", "N", "A", "M", "E", "=", "c">>
      [] s = "HostName" -> <<"H", "o", "s", "t", "N", "a", "m", "e">>
      [] s = Undefined -> <<"u", "n", "d", "e", "f", "i", "n", "e", "d">>
      [] s = "" -> <<>>

\* Case folding of the /i flag, on the letters the pattern has in two cases.
Lower(ch) == CASE ch = "H" -> "h" [] ch = "N" -> "n" [] ch = "O" -> "o"
               [] ch = "S" -> "s" [] ch = "T" -> "t" [] ch = "A" -> "a"
               [] ch = "M" -> "m" [] ch = "E" -> "e" [] OTHER -> ch

\* (changed: the pattern without its anchor, /HostName=/i)
HostNameTestAnywhere(s) ==
    LET cs == Chars(s)
        pat == <<"h", "o", "s", "t", "n", "a", "m", "e", "=">>
    IN \E i \in 1..Len(cs) :
          /\ i + Len(pat) - 1 <= Len(cs)
          /\ \A j \in 1..Len(pat) : Lower(cs[i + j - 1]) = pat[j]

\* /(^|;)HostName=/i.test(s)
HostNameTest(s) ==
    LET cs == Chars(s)
        pat == <<"h", "o", "s", "t", "n", "a", "m", "e", "=">>
    IN \E i \in 1..Len(cs) :
          /\ i = 1 \/ cs[i - 1] = ";"
          /\ i + Len(pat) - 1 <= Len(cs)
          /\ \A j \in 1..Len(pat) : Lower(cs[i + j - 1]) = pat[j]

MissingConfigFileError ==
    <<"Error: Unable to find the user configuration: please fill out the information in ",
      userConfigFile>>
InvalidConnectionStringError ==
    <<"Error: IOTHUB_CONNECTION_STRING was not filled out correctly; please fill out the information in ",
      userConfigFile>>

\* (changed: an Auth object with empty fields is passed to the constructor)
FileOutcomeEmptyAuth(f, id) ==
    IF ~f.exists THEN Thrown(MissingConfigFileError)
    ELSE IF ~HostNameTest(f.IOTHUB_CONNECTION_STRING) THEN Thrown(InvalidConnectionStringError)
    ELSE Returned(NewConfig(id, f.IOTHUB_CONNECTION_STRING,
                            OrElse(f.CONSOLE_REPORTING, "both"),
                            OrElse(f.LOG_LEVEL, "trace"),
                            OrElse(f.PORT, "3003"),
                            [loginUrl |-> "", mongoUri |-> "", sessionSecret |-> ""]))

\* (changed: no existsSync test, so that a missing file fails in require)
FileOutcomeNoExistsCheck(f, id) ==
    IF ~f.exists THEN Thrown(<<"Error: Cannot find module '", userConfigFile, "'">>)
    ELSE IF ~HostNameTest(f.IOTHUB_CONNECTION_STRING) THEN Thrown(InvalidConnectionStringError)
    ELSE Returned(NewConfig(id, f.IOTHUB_CONNECTION_STRING,
                            OrElse(f.CONSOLE_REPORTING, "both"),
                            OrElse(f.LOG_LEVEL, "trace"),
                            OrElse(f.PORT, "3003"),
                            NoAuth))

\* (changed: the PORT of the file is passed on as it is, without the default)
FileOutcomeNoPortDefault(f, id) ==
    IF ~f.exists THEN Thrown(MissingConfigFileError)
    ELSE IF ~HostNameTest(f.IOTHUB_CONNECTION_STRING) THEN Thrown(InvalidConnectionStringError)
    ELSE Returned(NewConfig(id, f.IOTHUB_CONNECTION_STRING,
                            OrElse(f.CONSOLE_REPORTING, "both"),
                            OrElse(f.LOG_LEVEL, "trace"),
                            f.PORT,
                            NoAuth))

\* What initializeFromFile does with the file f: the error it throws or
\* the Config it builds.
FileOutcome(f, id) ==
    IF ~f.exists THEN Thrown(MissingConfigFileError)
    ELSE IF ~HostNameTest(f.IOTHUB_CONNECTION_STRING) THEN Thrown(InvalidConnectionStringError)
    ELSE Returned(NewConfig(id, f.IOTHUB_CONNECTION_STRING,
                            OrElse(f.CONSOLE_REPORTING, "both"),
                            OrElse(f.LOG_LEVEL, "trace"),
                            OrElse(f.PORT, "3003"),
                            NoAuth))

\* (changed: a connection string that is not set is refused)
EnvironmentOutcomeRequiresConnStr(e, id) ==
    IF Falsy(e.IOTHUB_CONNECTION_STRING) THEN Thrown(InvalidConnectionStringError)
    ELSE Returned(NewConfig(id, e.IOTHUB_CONNECTION_STRING, "both", "trace",
                            OrElse(e.PORT, "3003"), NoAuth))

\* What initializeFromEnvironment builds from process.env.
EnvironmentOutcome(e, id) ==
    Returned(NewConfig(id, e.IOTHUB_CONNECTION_STRING, "both", "trace",
                       OrElse(e.PORT, "3003"), NoAuth))

\* (changed: a strategy that throws clears Config.instance)
SettleResetOnFailure(strategy, out) ==
    IF out.kind = "returned"
    THEN /\ instance' = out.value
         /\ nextId' = nextId + 1
         /\ lastSuccess' = Success(strategy, out.value, lastSuccess)
    ELSE /\ instance' = NULL
         /\ UNCHANGED <<nextId, lastSuccess>>

\* `return Config.instance = new Config(...)`, or the throw that leaves
\* Config.instance alone: the effect of a strategy that ran without await.
Settle(strategy, out) ==
    IF out.kind = "returned"
    THEN /\ instance' = out.value
         /\ nextId' = nextId + 1
         /\ lastSuccess' = Success(strategy, out.value, lastSuccess)
    ELSE UNCHANGED <<instance, nextId, lastSuccess>>

FromFile(op, e, f) ==
    LET out == FileOutcome(f, nextId) IN
    /\ Settle("initializeFromFile", out)
    /\ obs' = [op |-> op, ran |-> <<"initializeFromFile">>, env |-> e, file |-> f,
               outcome |-> out]
    /\ UNCHANGED callVars

FromEnvironment(op, e) ==
    LET out == EnvironmentOutcome(e, nextId) IN
    /\ Settle("initializeFromEnvironment", out)
    /\ obs' = [op |-> op, ran |-> <<"initializeFromEnvironment">>, env |-> e,
               file |-> NoFileRead, outcome |-> out]
    /\ UNCHANGED callVars

InitializeFromFile ==
    /\ CanStart
    /\ \E f \in UserConfigs : FromFile("initializeFromFile", NoEnv, f)

InitializeFromEnvironment ==
    /\ CanStart
    /\ \E e \in Envs : FromEnvironment("initializeFromEnvironment", e)

\* ------------------------------------ Config.initializeFromConfigService
DiscoveryUri(url) == <<url, "/api/discovery">>

\* The call up to its first await: the locals, and the first getHal.
FromConfigService(c, op, e, url, p) ==
    /\ pc[c] = "idle"
    /\ pc' = [pc EXCEPT ![c] = "awaitDiscovery"]
    /\ numRetries' = [numRetries EXCEPT ![c] = InitialNumRetries]
    /\ configUrl' = [configUrl EXCEPT ![c] = url]
    /\ port' = [port EXCEPT ![c] = p]
    /\ request' = [request EXCEPT ![c] = DiscoveryUri(url)]
    /\ discoveryFetches' = [discoveryFetches EXCEPT ![c] = 1]
    /\ fetched' = [fetched EXCEPT ![c] = <<DiscoveryUri(url)>>]
    /\ obs' = [op |-> op, ran |-> <<"initializeFromConfigService">>, env |-> e,
               file |-> NoFileRead, outcome |-> Pending]
    /\ UNCHANGED <<instance, nextId, lastSuccess, result, warnings, lastWarning,
                   lastFailure, pauses, timer, failures, received, discovered>>

InitializeFromConfigService(c) ==
    /\ CanStart
    /\ \E url \in ConfigUrls, p \in EnvPorts :
          FromConfigService(c, "initializeFromConfigService", NoEnv, url, p)

\* getHal: `err ? reject(err) : resolve(body)`; a rejected await throws err.
GetHal(r) == IF r.err # NoErr THEN Thrown(r.err) ELSE Returned(r.body)

TypeErrorReading(prop) ==
    <<"TypeError: Cannot read property '", prop, "' of undefined">>
NoSettingsListError == <<"Error: Config service does not provide settings:list">>
MissingSettingError(name) ==
    <<"Error: Config service does not provide setting \"", name, "\"">>

\* Lines 77-80: the awaited discovery resource, the lookup of the
\* settings:list relation in its _links and the check that it is there.
SettingsLink(r) ==
    LET discovery == GetHal(r) IN
    IF discovery.kind = "thrown" THEN discovery
    ELSE IF discovery.value = NoBody THEN Thrown(TypeErrorReading("_links"))
    ELSE IF "_links" \notin DOMAIN discovery.value THEN Thrown(TypeErrorReading("settings:list"))
    ELSE IF "settings:list" \notin DOMAIN discovery.value._links THEN Thrown(NoSettingsListError)
    ELSE Returned(discovery.value._links["settings:list"])

\* (changed: the test of sessionSecret inverted)
CheckedSettingsInverted(r) ==
    LET configSettings == GetHal(r) IN
    IF configSettings.kind = "thrown" THEN configSettings
    ELSE LET cs == configSettings.value IN
         IF cs = NoBody THEN Thrown(TypeErrorReading("iotHubConnStr"))
         ELSE IF Falsy(cs.iotHubConnStr) THEN Thrown(MissingSettingError("iotHubConnStr"))
         ELSE IF Falsy(cs.loginUrl) THEN Thrown(MissingSettingError("loginUrl"))
         ELSE IF Falsy(cs.mongoUri) THEN Thrown(MissingSettingError("mongoUri"))
         ELSE IF ~Falsy(cs.sessionSecret) THEN Thrown(MissingSettingError("sessionSecret"))
         ELSE LET dmSettings == cs.device_management IN
              IF \/ dmSettings = NoBody
                 \/ Falsy(dmSettings.consoleReporting)
                 \/ Falsy(dmSettings.logLevel)
              THEN Thrown(MissingSettingError("device-management"))
              ELSE configSettings

\* (changed: mongoUri is not checked)
CheckedSettingsNoMongo(r) ==
    LET configSettings == GetHal(r) IN
    IF configSettings.kind = "thrown" THEN configSettings
    ELSE LET cs == configSettings.value IN
         IF cs = NoBody THEN Thrown(TypeErrorReading("iotHubConnStr"))
         ELSE IF Falsy(cs.iotHubConnStr) THEN Thrown(MissingSettingError("iotHubConnStr"))
         ELSE IF Falsy(cs.loginUrl) THEN Thrown(MissingSettingError("loginUrl"))
         ELSE IF Falsy(cs.sessionSecret) THEN Thrown(MissingSettingError("sessionSecret"))
         ELSE LET dmSettings == cs.device_management IN
              IF \/ dmSettings = NoBody
                 \/ Falsy(dmSettings.consoleReporting)
                 \/ Falsy(dmSettings.logLevel)
              THEN Thrown(MissingSettingError("device-management"))
              ELSE configSettings

\* Lines 82-91: the awaited settings resource and the checks of its fields,
\* in the order of the code; the first failing check throws.
CheckedSettings(r) ==
    LET configSettings == GetHal(r) IN
    IF configSettings.kind = "thrown" THEN configSettings
    ELSE LET cs == configSettings.value IN
         IF cs = NoBody THEN Thrown(TypeErrorReading("iotHubConnStr"))
         ELSE IF Falsy(cs.iotHubConnStr) THEN Thrown(MissingSettingError("iotHubConnStr"))
         ELSE IF Falsy(cs.loginUrl) THEN Thrown(MissingSettingError("loginUrl"))
         ELSE IF Falsy(cs.mongoUri) THEN Thrown(MissingSettingError("mongoUri"))
         ELSE IF Falsy(cs.sessionSecret) THEN Thrown(MissingSettingError("sessionSecret"))
         ELSE LET dmSettings == cs.device_management IN
              IF \/ dmSettings = NoBody
                 \/ Falsy(dmSettings.consoleReporting)
                 \/ Falsy(dmSettings.logLevel)
              THEN Thrown(MissingSettingError("device-management"))
              ELSE configSettings

\* (changed: a missing port is replaced by the default of the other strategies)
ConfigFromSettingsDefaultPort(id, cs, p) ==
    NewConfig(id, cs.iotHubConnStr, cs.device_management.consoleReporting,
              cs.device_management.logLevel, OrElse(p, "3003"),
              [loginUrl |-> cs.loginUrl, mongoUri |-> cs.mongoUri,
               sessionSecret |-> cs.sessionSecret])

\* Lines 94-103: the Config built from a checked settings resource.
ConfigFromSettings(id, cs, p) ==
    NewConfig(id, cs.iotHubConnStr, cs.device_management.consoleReporting,
              cs.device_management.logLevel, p,
              [loginUrl |-> cs.loginUrl, mongoUri |-> cs.mongoUri,
               sessionSecret |-> cs.sessionSecret])

\* Line 73: const delayBeforeRetrySeconds = 5
delayBeforeRetrySeconds == 5
\* (changed: the seconds handed to setTimeout as they are)
RetryDelayNotConverted == delayBeforeRetrySeconds
\* Line 111: delayBeforeRetrySeconds * 1000, the milliseconds of the setTimeout
RetryDelayMs == delayBeforeRetrySeconds * 1000

\* (changed: the decrement left out)
NotDecremented(n) == n
\* Line 105: --numRetries
Decremented(n) == n - 1
\* (changed: the test made before the decrement takes effect)
BudgetExhaustedLate(n) == n = -1
\* Line 106: numRetries === 0
BudgetExhausted(n) == n = 0
\* Line 107: the error thrown when the budget is exhausted
ConfigServiceUnavailableError(err) ==
    <<"Error: Could not initialize from Config Service: ", err>>
\* Line 110: the line written to console.error
WarningLine(err) ==
    <<"WARNING: Could not initialize from Config Service: ", err, "; Retrying...">>

\* (changed: a missing settings:list relation is thrown out of the call at once)
CatchProtocolErrorFatal(c, err) ==
    LET n == Decremented(numRetries[c]) IN
    /\ numRetries' = [numRetries EXCEPT ![c] = n]
    /\ request' = [request EXCEPT ![c] = <<>>]
    /\ IF BudgetExhausted(n) \/ err = NoSettingsListError
       THEN /\ pc' = [pc EXCEPT ![c] = "thrown"]
            /\ result' = [result EXCEPT ![c] = Thrown(ConfigServiceUnavailableError(err))]
            /\ UNCHANGED <<warnings, lastWarning, pauses, timer>>
       ELSE /\ pc' = [pc EXCEPT ![c] = "delay"]
            /\ warnings' = [warnings EXCEPT ![c] = @ + 1]
            /\ lastWarning' = [lastWarning EXCEPT ![c] = WarningLine(err)]
            /\ pauses' = [pauses EXCEPT ![c] = @ + 1]
            /\ timer' = [timer EXCEPT ![c] = RetryDelayMs]
            /\ UNCHANGED result

\* (changed: the error wrapped is the one of the previous pass of the loop,
\* the one the last warning reported)
CatchStaleError(c, err) ==
    LET n == Decremented(numRetries[c]) IN
    /\ numRetries' = [numRetries EXCEPT ![c] = n]
    /\ request' = [request EXCEPT ![c] = <<>>]
    /\ IF BudgetExhausted(n)
       THEN /\ pc' = [pc EXCEPT ![c] = "thrown"]
            /\ result' = [result EXCEPT ![c] =
                             Thrown(ConfigServiceUnavailableError(lastWarning[c][2]))]
            /\ UNCHANGED <<warnings, lastWarning, pauses, timer>>
       ELSE /\ pc' = [pc EXCEPT ![c] = "delay"]
            /\ warnings' = [warnings EXCEPT ![c] = @ + 1]
            /\ lastWarning' = [lastWarning EXCEPT ![c] = WarningLine(err)]
            /\ pauses' = [pauses EXCEPT ![c] = @ + 1]
            /\ timer' = [timer EXCEPT ![c] = RetryDelayMs]
            /\ UNCHANGED result

\* (changed: the retry is started without the line of console.error)
CatchSilent(c, err) ==
    LET n == Decremented(numRetries[c]) IN
    /\ numRetries' = [numRetries EXCEPT ![c] = n]
    /\ request' = [request EXCEPT ![c] = <<>>]
    /\ IF BudgetExhausted(n)
       THEN /\ pc' = [pc EXCEPT ![c] = "thrown"]
            /\ result' = [result EXCEPT ![c] = Thrown(ConfigServiceUnavailableError(err))]
            /\ UNCHANGED <<warnings, lastWarning, pauses, timer>>
       ELSE /\ pc' = [pc EXCEPT ![c] = "delay"]
            /\ pauses' = [pauses EXCEPT ![c] = @ + 1]
            /\ timer' = [timer EXCEPT ![c] = RetryDelayMs]
            /\ UNCHANGED <<result, warnings, lastWarning>>

\* Lines 104-113: the catch block, entered with the error err of the attempt.
\* It either throws out of the call or starts the delay before the retry.
\* It sets the variables of the loop; what it leaves alone is stated by the
\* action it is part of.
Catch(c, err) ==
    LET n == Decremented(numRetries[c]) IN
    /\ numRetries' = [numRetries EXCEPT ![c] = n]
    /\ request' = [request EXCEPT ![c] = <<>>]
    /\ IF BudgetExhausted(n)
       THEN /\ pc' = [pc EXCEPT ![c] = "thrown"]
            /\ result' = [result EXCEPT ![c] = Thrown(ConfigServiceUnavailableError(err))]
            /\ UNCHANGED <<warnings, lastWarning, pauses, timer>>
       ELSE /\ pc' = [pc EXCEPT ![c] = "delay"]
            /\ warnings' = [warnings EXCEPT ![c] = @ + 1]
            /\ lastWarning' = [lastWarning EXCEPT ![c] = WarningLine(err)]
            /\ pauses' = [pauses EXCEPT ![c] = @ + 1]
            /\ timer' = [timer EXCEPT ![c] = RetryDelayMs]
            /\ UNCHANGED result

\* (changed: the settings are fetched from a fixed path, the href not followed)
SettingsUriFixed(url, link) == <<url, "/api/settings">>
\* Line 82: configUrl + settingsLink.href
SettingsUri(url, link) == <<url, link.href>>

\* The discovery request completes: the callback of request.get, the
\* continuation of the await of line 77 up to the await of line 82.
\* The response is one of `responses`.
OnDiscoveryResponse(c, responses) ==
    /\ pc[c] = "awaitDiscovery"
    /\ \E r \in responses :
          LET settingsLink == SettingsLink(r) IN
          IF settingsLink.kind = "thrown"
          THEN /\ Catch(c, settingsLink.error)
               /\ lastFailure' = [lastFailure EXCEPT ![c] = settingsLink.error]
               /\ failures' = [failures EXCEPT ![c] = @ + 1]
               /\ discovered' = [discovered EXCEPT ![c] = r]
               /\ UNCHANGED <<instance, nextId, lastSuccess, configUrl, port,
                              discoveryFetches, fetched, received>>
          ELSE LET uri == SettingsUri(configUrl[c], settingsLink.value) IN
               /\ pc' = [pc EXCEPT ![c] = "awaitSettings"]
               /\ request' = [request EXCEPT ![c] = uri]
               /\ fetched' = [fetched EXCEPT ![c] = Append(@, uri)]
               /\ discovered' = [discovered EXCEPT ![c] = r]
               /\ UNCHANGED <<instance, nextId, lastSuccess, numRetries, configUrl, port,
                              result, discoveryFetches, warnings, lastWarning,
                              lastFailure, pauses, timer, failures, received>>
    /\ obs' = NoObs

DiscoveryResponse(c) == OnDiscoveryResponse(c, DiscoveryResponses)

\* (changed: the Config is built and assigned to Config.instance before the
\* settings are checked)
SettingsResponsePublishFirst(c) ==
    /\ pc[c] = "awaitSettings"
    /\ \E r \in SettingsResponses :
          LET configSettings == CheckedSettings(r) IN
          IF configSettings.kind = "thrown"
          THEN /\ Catch(c, configSettings.error)
               /\ lastFailure' = [lastFailure EXCEPT ![c] = configSettings.error]
               /\ failures' = [failures EXCEPT ![c] = @ + 1]
               /\ received' = [received EXCEPT ![c] = r]
               /\ IF r.err = NoErr /\ r.body # NoBody /\ r.body.device_management # NoBody
                  THEN /\ instance' = ConfigFromSettings(nextId, r.body, port[c])
                       /\ nextId' = nextId + 1
                  ELSE UNCHANGED <<instance, nextId>>
               /\ UNCHANGED <<lastSuccess, configUrl, port, discoveryFetches, fetched>>
          ELSE LET config == ConfigFromSettings(nextId, configSettings.value, port[c]) IN
               /\ instance' = config
               /\ nextId' = nextId + 1
               /\ lastSuccess' = Success("initializeFromConfigService", config, lastSuccess)
               /\ pc' = [pc EXCEPT ![c] = "returned"]
               /\ result' = [result EXCEPT ![c] = Returned(config)]
               /\ request' = [request EXCEPT ![c] = <<>>]
               /\ received' = [received EXCEPT ![c] = r]
               /\ UNCHANGED <<numRetries, configUrl, port, discoveryFetches, fetched,
                              warnings, lastWarning, lastFailure, pauses, timer, failures>>
    /\ UNCHANGED discovered
    /\ obs' = NoObs

\* (changed: when a Config is already published the new values are written
\* into that object, which every holder of it then sees changed)
SettingsResponseInPlace(c) ==
    /\ pc[c] = "awaitSettings"
    /\ \E r \in SettingsResponses :
          LET configSettings == CheckedSettings(r) IN
          IF configSettings.kind = "thrown"
          THEN /\ Catch(c, configSettings.error)
               /\ lastFailure' = [lastFailure EXCEPT ![c] = configSettings.error]
               /\ failures' = [failures EXCEPT ![c] = @ + 1]
               /\ received' = [received EXCEPT ![c] = r]
               /\ UNCHANGED <<instance, nextId, lastSuccess, configUrl, port,
                              discoveryFetches, fetched>>
          ELSE LET fresh == instance = NULL
                   id == IF fresh THEN nextId ELSE instance.id
                   config == ConfigFromSettings(id, configSettings.value, port[c])
               IN
               /\ instance' = config
               /\ nextId' = IF fresh THEN nextId + 1 ELSE nextId
               /\ lastSuccess' = Success("initializeFromConfigService", config, lastSuccess)
               /\ pc' = [pc EXCEPT ![c] = "returned"]
               /\ result' = [d \in Calls |->
                                IF d = c THEN Returned(config)
                                ELSE IF result[d].kind = "returned" /\ result[d].value.id = id
                                     THEN Returned(config)
                                     ELSE result[d]]
               /\ request' = [request EXCEPT ![c] = <<>>]
               /\ received' = [received EXCEPT ![c] = r]
               /\ UNCHANGED <<numRetries, configUrl, port, discoveryFetches, fetched,
                              warnings, lastWarning, lastFailure, pauses, timer, failures>>
    /\ UNCHANGED discovered
    /\ obs' = NoObs

\* The settings request completes: the continuation of the await of line 82
\* up to the return of line 94 or into the catch block.
SettingsResponse(c) ==
    /\ pc[c] = "awaitSettings"
    /\ \E r \in SettingsResponses :
          LET configSettings == CheckedSettings(r) IN
          IF configSettings.kind = "thrown"
          THEN /\ Catch(c, configSettings.error)
               /\ lastFailure' = [lastFailure EXCEPT ![c] = configSettings.error]
               /\ failures' = [failures EXCEPT ![c] = @ + 1]
               /\ received' = [received EXCEPT ![c] = r]
               /\ UNCHANGED <<instance, nextId, lastSuccess, configUrl, port,
                              discoveryFetches, fetched>>
          ELSE LET config == ConfigFromSettings(nextId, configSettings.value, port[c]) IN
               /\ instance' = config
               /\ nextId' = nextId + 1
               /\ lastSuccess' = Success("initializeFromConfigService", config, lastSuccess)
               /\ pc' = [pc EXCEPT ![c] = "returned"]
               /\ result' = [result EXCEPT ![c] = Returned(config)]
               /\ request' = [request EXCEPT ![c] = <<>>]
               /\ received' = [received EXCEPT ![c] = r]
               /\ UNCHANGED <<numRetries, configUrl, port, discoveryFetches, fetched,
                              warnings, lastWarning, lastFailure, pauses, timer, failures>>
    /\ UNCHANGED discovered
    /\ obs' = NoObs

\* The timer of line 111 fires: the loop comes round to line 77 again.
DelayElapsed(c) ==
    /\ pc[c] = "delay"
    /\ discoveryFetches[c] < MaxFetches
    /\ pc' = [pc EXCEPT ![c] = "awaitDiscovery"]
    /\ request' = [request EXCEPT ![c] = DiscoveryUri(configUrl[c])]
    /\ discoveryFetches' = [discoveryFetches EXCEPT ![c] = @ + 1]
    /\ fetched' = [fetched EXCEPT ![c] = <<DiscoveryUri(configUrl[c])>>]
    /\ received' = [received EXCEPT ![c] = NoResponse]
    /\ discovered' = [discovered EXCEPT ![c] = NoResponse]
    /\ timer' = [timer EXCEPT ![c] = 0]
    /\ obs' = NoObs
    /\ UNCHANGED <<instance, nextId, lastSuccess, numRetries, configUrl, port, result,
                   warnings, lastWarning, lastFailure, pauses, failures>>

\* The caller's await of the call is resumed with the result (or the
\* error); the activation and what was recorded about it are dropped.
Resume(c) ==
    /\ pc[c] \in Terminal
    /\ pc' = [pc EXCEPT ![c] = "idle"]
    /\ numRetries' = [numRetries EXCEPT ![c] = 0]
    /\ configUrl' = [configUrl EXCEPT ![c] = Undefined]
    /\ port' = [port EXCEPT ![c] = Undefined]
    /\ request' = [request EXCEPT ![c] = <<>>]
    /\ result' = [result EXCEPT ![c] = Pending]
    /\ discoveryFetches' = [discoveryFetches EXCEPT ![c] = 0]
    /\ fetched' = [fetched EXCEPT ![c] = <<>>]
    /\ warnings' = [warnings EXCEPT ![c] = 0]
    /\ lastWarning' = [lastWarning EXCEPT ![c] = NoText]
    /\ lastFailure' = [lastFailure EXCEPT ![c] = NoText]
    /\ pauses' = [pauses EXCEPT ![c] = 0]
    /\ timer' = [timer EXCEPT ![c] = 0]
    /\ failures' = [failures EXCEPT ![c] = 0]
    /\ received' = [received EXCEPT ![c] = NoResponse]
    /\ discovered' = [discovered EXCEPT ![c] = NoResponse]
    /\ obs' = NoObs
    /\ UNCHANGED <<instance, nextId, lastSuccess>>

\* ------------------------------------------------------ Config.initialize
\* (changed: the port override is looked at first)
SelectStrategyPortFirst(url, p) ==
    IF Falsy(url) /\ Falsy(p) THEN "initializeFromFile"
    ELSE IF ~Falsy(p) THEN "initializeFromEnvironment"
    ELSE "initializeFromConfigService"

SelectStrategy(url, p) ==
    IF Falsy(url) /\ Falsy(p) THEN "initializeFromFile"
    ELSE IF Falsy(url) THEN "initializeFromEnvironment"
    ELSE "initializeFromConfigService"

Initialize(c) ==
    /\ CanStart
    /\ \E e \in Envs :
          LET strategy == SelectStrategy(e.CONFIG_URL, e.PORT) IN
          CASE strategy = "initializeFromFile" ->
                  \E f \in UserConfigs : FromFile("initialize", e, f)
            [] strategy = "initializeFromEnvironment" -> FromEnvironment("initialize", e)
            [] strategy = "initializeFromConfigService" ->
                  FromConfigService(c, "initialize", e, e.CONFIG_URL, e.PORT)

Next ==
    \/ Get
    \/ InitializeFromFile
    \/ InitializeFromEnvironment
    \/ \E c \in Startup : InitializeFromConfigService(c)
    \/ \E c \in Startup : Initialize(c)
    \/ \E c \in Startup : DiscoveryResponse(c)
    \/ \E c \in Startup : SettingsResponse(c)
    \/ \E c \in Startup : DelayElapsed(c)
    \/ \E c \in Startup : Resume(c)

Spec == Init /\ [][Next]_vars

\* The event loop runs every callback that is ready: a request that
\* completes has its callback run, a timer that is due fires.
Fairness ==
    \A c \in Startup : /\ WF_vars(DiscoveryResponse(c))
                       /\ WF_vars(SettingsResponse(c))
                       /\ WF_vars(DelayElapsed(c))

\* The calls of initializeFromConfigService alone, with the reads of the
\* singleton that may fall between their steps.
ServiceNext ==
    \/ Get
    \/ \E c \in Startup : InitializeFromConfigService(c)
    \/ \E c \in Startup : DiscoveryResponse(c)
    \/ \E c \in Startup : SettingsResponse(c)
    \/ \E c \in Startup : DelayElapsed(c)
    \/ \E c \in Startup : Resume(c)

ServiceSpec == Init /\ [][ServiceNext]_vars

LiveSpec == Init /\ [][ServiceNext]_vars /\ Fairness

\* The calls of initializeFromConfigService against a config service whose
\* discovery resource gives the settings:list relation any of the hrefs.
FollowDiscoveryResponse(c) == OnDiscoveryResponse(c, HrefDiscoveryResponses)

FollowNext ==
    \/ \E c \in Startup : InitializeFromConfigService(c)
    \/ \E c \in Startup : FollowDiscoveryResponse(c)
    \/ \E c \in Startup : SettingsResponse(c)
    \/ \E c \in Startup : DelayElapsed(c)
    \/ \E c \in Startup : Resume(c)

FollowSpec == Init /\ [][FollowNext]_vars

\* Two calls of initializeFromConfigService that overlap: each is started
\* once, whatever the other is doing, and their fetches complete and their
\* delays elapse in any order; initializeFromEnvironment may run in between.
\* The responses are a network error or the good resource for discovery,
\* and a resource without mongoUri or a good one for the settings.
Allocating == Cardinality({c \in Calls : pc[c] \in InProgress})
ConcDiscoveryResponses ==
    {[err |-> NetworkError, body |-> NoBody],
     [err |-> NoErr, body |-> DiscoveryBody(SettingsHref)]}
ConcSettingsResponses ==
    [err : {NoErr},
     body : {GoodSettings("HostName=hub1"), GoodSettings("HostName=hub2"),
             [GoodSettings("HostName=hub1") EXCEPT !.mongoUri = Undefined]}]

ConcStart(c) ==
    /\ nextId + Allocating <= MaxConfigs
    /\ \E url \in ConfigUrls, p \in EnvPorts :
          FromConfigService(c, "initializeFromConfigService", NoEnv, url, p)

ConcEnvironment ==
    /\ nextId + Allocating <= MaxConfigs
    /\ \E e \in Envs : FromEnvironment("initializeFromEnvironment", e)

ConcDiscoveryResponse(c) ==
    /\ OnDiscoveryResponse(c, ConcDiscoveryResponses)
    /\ failures'[c] <= MaxConcFailures

ConcSettingsResponse(c) ==
    /\ SettingsResponse(c)
    /\ received'[c] \in ConcSettingsResponses
    /\ failures'[c] <= MaxConcFailures

ConcNext ==
    \/ Get
    \/ ConcEnvironment
    \/ \E c \in Calls : ConcStart(c)
    \/ \E c \in Calls : ConcDiscoveryResponse(c)
    \/ \E c \in Calls : ConcSettingsResponse(c)
    \/ \E c \in Calls : DelayElapsed(c)

ConcSpec == Init /\ [][ConcNext]_vars

\* The calls of the two strategies that run without await, over the wider
\* sets of files and of environments, with the reads of the singleton
\* between them.
ReadUserConfig ==
    /\ CanStart
    /\ \E f \in AnyUserConfigs : FromFile("initializeFromFile", NoEnv, f)

ReadEnvironment ==
    /\ CanStart
    /\ \E e \in AnyEnvs : FromEnvironment("initializeFromEnvironment", e)

SyncNext == Get \/ ReadUserConfig \/ ReadEnvironment

SyncSpec == Init /\ [][SyncNext]_vars

\* ================================================================ claims
\* A settings resource as the wire shape asks for it: the four top-level
\* settings and the two of device-management, all present and non-empty.
Present(v) == v # Undefined /\ v # ""
CompleteSettings(r) ==
    /\ r # NoResponse
    /\ r.err = NoErr
    /\ r.body # NoBody
    /\ Present(r.body.iotHubConnStr) /\ Present(r.body.loginUrl)
    /\ Present(r.body.mongoUri) /\ Present(r.body.sessionSecret)
    /\ r.body.device_management # NoBody
    /\ Present(r.body.device_management.consoleReporting)
    /\ Present(r.body.device_management.logLevel)

IsConfigServiceUnavailable(out) ==
    /\ out.kind = "thrown"
    /\ Len(out.error) = 2
    /\ out.error[1] = "Error: Could not initialize from Config Service: "

\* C1: a call of initializeFromConfigService whose attempts all fail ends
\* with the "Could not initialize from Config Service" error after exactly
\* 60 discovery fetches: it has thrown only when 60 were issued, each of
\* them followed by a failure (59 warnings and the throw), no call ever
\* issues a 61st, and after the 60th failure there is no further delay.
C1_ExhaustedAfterExactly60 ==
    \A c \in Calls :
       /\ discoveryFetches[c] <= 60
       /\ pc[c] = "thrown" =>
             /\ discoveryFetches[c] = 60
             /\ warnings[c] = 59
             /\ IsConfigServiceUnavailable(result[c])
       /\ pc[c] = "delay" => discoveryFetches[c] < 60
       /\ pc[c] = "thrown" <=> result[c].kind = "thrown"

\* C1 witness: an exhausted call whose last two attempts found no
\* settings:list relation.
C1_Witness ==
    \E c \in Calls :
       /\ pc[c] = "thrown"
       /\ discoveryFetches[c] = 60
       /\ lastFailure[c] = NoSettingsListError
       /\ lastWarning[c] = WarningLine(NoSettingsListError)

\* C2: an attempt that receives a complete settings resource succeeds, on
\* whatever attempt k+1 (k = 0..59) it happens: a call is never retrying or
\* thrown with a complete settings resource received in its last attempt;
\* a returned call made exactly k+1 discovery fetches for its k failed
\* attempts, and the Config it returned is the one built from that
\* attempt's settings resource and is the published one.
C2_SucceedsOnFirstGoodAttempt ==
    \A c \in Calls :
       /\ pc[c] \in {"delay", "thrown"} => ~CompleteSettings(received[c])
       /\ pc[c] = "returned" =>
             /\ CompleteSettings(received[c])
             /\ discoveryFetches[c] = warnings[c] + 1
             /\ discoveryFetches[c] \in 1..60
             /\ result[c].kind = "returned"
             /\ result[c].value.IotHubConnectionString = received[c].body.iotHubConnStr
             /\ result[c].value.Auth.sessionSecret = received[c].body.sessionSecret
             /\ instance = result[c].value

\* C2 witness: two failed attempts, success on the third.
C2_Witness ==
    \E c \in Calls :
       /\ pc[c] = "returned"
       /\ warnings[c] = 2
       /\ discoveryFetches[c] = 3
       /\ instance.Auth # NoAuth

\* C3: whatever the reason of a failed attempt, the step that handles it
\* throws out of the call only when it was the 60th attempt; on every
\* earlier attempt it leaves the call alive, waiting to retry.
AttemptFails(c) ==
    /\ pc[c] \in {"awaitDiscovery", "awaitSettings"}
    /\ pc'[c] \in {"delay", "thrown"}
C3_FailuresRetryUniformly ==
    [][\A c \in Calls :
          AttemptFails(c) =>
             IF discoveryFetches[c] < 60
             THEN pc'[c] = "delay" /\ result'[c] = Pending /\ instance' = instance
             ELSE pc'[c] = "thrown"]_vars

\* C3 witness: a settings resource without sessionSecret was received on
\* an early attempt and the call is waiting to retry.
C3_Witness ==
    \E c \in Calls :
       /\ pc[c] = "delay"
       /\ discoveryFetches[c] = 1
       /\ lastFailure[c] = MissingSettingError("sessionSecret")
       /\ received[c] # NoResponse /\ received[c].body.sessionSecret = Undefined
       /\ result[c] = Pending

\* C4: get() throws "Config has not yet been initialized" as long as no
\* resolution has returned a Config (failed resolutions included), and
\* otherwise returns the very object (same identity and fields) that the
\* most recent successful resolution returned.
C4_GetReturnsLastPublished ==
    obs.op = "get" =>
       obs.outcome = IF lastSuccess = NoSuccess
                     THEN Thrown(NotInitializedError)
                     ELSE Returned(lastSuccess.value)

\* C4 witness: get() returns the second Config published, the one that
\* overwrote the first.
C4_Witness ==
    /\ obs.op = "get"
    /\ obs.outcome.kind = "returned"
    /\ obs.outcome.value.id = 2
    /\ lastSuccess.before # "none"

\* C5: initialize() runs exactly one strategy, the one the table gives for
\* (CONFIG_URL, PORT): initializeFromFile when both are absent,
\* initializeFromEnvironment when only PORT is present, and
\* initializeFromConfigService when CONFIG_URL is present, whatever PORT.
\* (A variable set to the empty string counts as absent.)
Absent(v) == v = Undefined \/ v = ""
TableStrategy(e) ==
    CASE Absent(e.CONFIG_URL) /\ Absent(e.PORT) -> "initializeFromFile"
      [] Absent(e.CONFIG_URL) /\ ~Absent(e.PORT) -> "initializeFromEnvironment"
      [] ~Absent(e.CONFIG_URL) -> "initializeFromConfigService"
C6_WrapsLastFailure ==
    \A c \in Calls :
       pc[c] = "thrown" =>
          result[c] = Thrown(<<"Error: Could not initialize from Config Service: ",
                               lastFailure[c]>>)

\* C6 witness: an exhausted call whose 59th attempt failed for another
\* reason than its 60th.
C6_Witness ==
    \E c \in Calls :
       /\ pc[c] = "thrown"
       /\ discoveryFetches[c] = 60
       /\ lastWarning[c] # WarningLine(lastFailure[c])
       /\ result[c].error[2] = lastFailure[c]

\* C7: the Config a call of initializeFromConfigService(configUrl, port)
\* returns has the connection string, the three auth values and the two
\* device-management values of the settings resource received, and Port
\* equal to the port argument, undefined included; initialize() passes
\* CONFIG_URL and PORT as these arguments.
C7_FieldsFromSettingsPortFromCaller ==
    /\ \A c \in Calls :
          pc[c] = "returned" =>
             LET cfg == result[c].value
                 cs == received[c].body
             IN /\ cfg.IotHubConnectionString = cs.iotHubConnStr
                /\ cfg.Auth = [loginUrl |-> cs.loginUrl, mongoUri |-> cs.mongoUri,
                               sessionSecret |-> cs.sessionSecret]
                /\ cfg.ConsoleReporting = cs.device_management.consoleReporting
                /\ cfg.LogLevel = cs.device_management.logLevel
                /\ cfg.Port = port[c]
    /\ (obs.op = "initialize" /\ obs.outcome = Pending) =>
          \E c \in Calls : /\ pc[c] = "awaitDiscovery"
                           /\ port[c] = obs.env.PORT
                           /\ configUrl[c] = obs.env.CONFIG_URL

\* C7 witness: a call without port override returned a Config without port.
C7_Witness ==
    \E c \in Calls :
       /\ pc[c] = "returned"
       /\ port[c] = Undefined
       /\ result[c].value.Port = Undefined
       /\ result[c].value.IotHubConnectionString = "HostName=hub2"

\* C8: there is a published Config exactly when some resolution succeeded,
\* and its Auth is present (an object with the three auth fields) exactly
\* when the most recent successful resolution was
\* initializeFromConfigService; otherwise Auth is undefined.
C8_AuthIffDiscovery ==
    /\ instance = NULL <=> lastSuccess = NoSuccess
    /\ instance # NULL =>
          IF lastSuccess.strategy = "initializeFromConfigService"
          THEN DOMAIN instance.Auth = {"loginUrl", "mongoUri", "sessionSecret"}
          ELSE instance.Auth = NoAuth

\* C8 witness: a file or environment resolution overwrote a Config that
\* the config service path had published with Auth.
C8_Witness ==
    /\ instance # NULL
    /\ instance.Auth = NoAuth
    /\ lastSuccess.before = "initializeFromConfigService"

\* C9: a get() made while a call of initializeFromConfigService is under
\* way (fetching, between the fetches, delaying) throws "Config has not yet
\* been initialized" if no resolution has succeeded yet, and never returns
\* anything other than a Config a completed resolution returned.
C9_GetDuringResolution ==
    (obs.op = "get" /\ \E c \in Calls : pc[c] \in InProgress) =>
       /\ lastSuccess = NoSuccess => obs.outcome = Thrown(NotInitializedError)
       /\ obs.outcome.kind = "returned" =>
             /\ lastSuccess # NoSuccess
             /\ obs.outcome.value = lastSuccess.value

\* C9 witness: get() threw during the settings fetch of a later attempt.
C9_Witness ==
    /\ obs.op = "get"
    /\ obs.outcome = Thrown(NotInitializedError)
    /\ \E c \in Calls : pc[c] = "awaitSettings" /\ warnings[c] >= 1

\* C10: provided every fetch completes and every delay elapses, a call of
\* initializeFromConfigService that is under way ends: it returns the
\* published Config or throws the "Could not initialize" error, one of the
\* two, and does not retry for ever.
C10_CallTerminates ==
    \A c \in Calls :
       (pc[c] \in InProgress) ~>
          \/ pc[c] = "returned" /\ result[c].kind = "returned"
          \/ pc[c] = "thrown" /\ result[c].kind = "thrown"

\* C10 witness: a call that succeeded on its last possible attempt.
C10_Witness ==
    \E c \in Calls :
       /\ pc[c] = "returned"
       /\ discoveryFetches[c] = 60
       /\ warnings[c] = 59

\* C11 as stated: the warnings a call has written are as many as its
\* attempts that failed.
C11_WarningPerFailedAttempt ==
    \A c \in Calls : warnings[c] = failures[c]

\* C11: a call writes exactly one warning for every failed attempt that is
\* followed by a retry, and none for the failed attempt that exhausts the
\* budget: while it is under way and when it has returned its warnings are
\* as many as its failed attempts; when it has thrown it failed 60 times
\* and warned 59 times. The warning written before a retry reports the
\* failure of the attempt that just ended.
C11_WarningPerRetriedFailure ==
    \A c \in Calls :
       /\ pc[c] # "thrown" => warnings[c] = failures[c]
       /\ pc[c] = "thrown" => failures[c] = 60 /\ warnings[c] = 59
       /\ pc[c] = "delay" =>
             /\ failures[c] >= 1
             /\ lastWarning[c] = WarningLine(lastFailure[c])

\* C11 witness: an exhausted call, its 60th failure left without a warning:
\* the last warning reports a missing relation, the failure that exhausted
\* the budget was a network error.
C11_Witness ==
    \E c \in Calls :
       /\ pc[c] = "thrown"
       /\ failures[c] = 60
       /\ warnings[c] = 59
       /\ lastFailure[c] = NetworkError
       /\ lastWarning[c] = WarningLine(NoSettingsListError)

\* The step is a run of initializeFromFile, called directly or by initialize.
FileStep ==
    /\ obs'.op \in {"initialize", "initializeFromFile"}
    /\ obs'.ran = <<"initializeFromFile">>

\* The connection strings of the model that have HostName=, in any casing,
\* at their start or right after a ';'.
ConnStrsWithHostName == {"HostName=f", "x;hostname=f", "hostname=abc", "a=b;HOSTNAME=c"}

\* C12: a run of initializeFromFile on an existing file whose connection
\* string has no HostName= (in any casing) at its start or right after a
\* ';', the absent field included, throws the "IOTHUB_CONNECTION_STRING was
\* not filled out correctly" error and leaves Config.instance as it was;
\* with HostName= there, the run passes the check and returns a Config.
C12_ConnectionStringChecked ==
    [][FileStep /\ obs'.file.exists =>
          IF obs'.file.IOTHUB_CONNECTION_STRING \in ConnStrsWithHostName
          THEN /\ obs'.outcome.kind = "returned"
               /\ instance' = obs'.outcome.value
          ELSE /\ obs'.outcome = Thrown(InvalidConnectionStringError)
               /\ instance' = instance
               /\ nextId' = nextId
               /\ lastSuccess' = lastSuccess]_vars

\* C12 witness: a file with 'xHostName=f' was refused while the Config of
\* an earlier file ('hostname=abc') stays published.
C12_Witness ==
    /\ obs.op = "initializeFromFile"
    /\ obs.file.exists
    /\ obs.file.IOTHUB_CONNECTION_STRING = "xHostName=f"
    /\ obs.outcome = Thrown(InvalidConnectionStringError)
    /\ instance # NULL
    /\ instance.IotHubConnectionString = "hostname=abc"

\* The step is a run of initializeFromFile that returned a Config.
FileStepReturns == FileStep /\ obs'.outcome.kind = "returned"

\* C13 as stated: each of ConsoleReporting, LogLevel and Port is the
\* default when the file has no such field and the value of the field, as
\* it is, whenever the file has one.
C13_DefaultsForOmittedFields ==
    [][FileStepReturns =>
          LET f == obs'.file
              config == obs'.outcome.value
          IN /\ config.ConsoleReporting =
                   IF f.CONSOLE_REPORTING = Undefined THEN "both" ELSE f.CONSOLE_REPORTING
             /\ config.LogLevel = IF f.LOG_LEVEL = Undefined THEN "trace" ELSE f.LOG_LEVEL
             /\ config.Port = IF f.PORT = Undefined THEN "3003" ELSE f.PORT]_vars

\* C13: the Config a successful initializeFromFile publishes has, for each
\* of CONSOLE_REPORTING, LOG_LEVEL and PORT on its own, the default
\* ('both', 'trace', '3003') when the file omits the field or gives it as
\* the empty string, and the value of the file when that is non-empty; its
\* connection string is the one of the file, unchanged.
C13_DefaultsForOmittedOrEmptyFields ==
    [][FileStepReturns =>
          LET f == obs'.file
              config == obs'.outcome.value
          IN /\ config.ConsoleReporting =
                   IF Absent(f.CONSOLE_REPORTING) THEN "both" ELSE f.CONSOLE_REPORTING
             /\ config.LogLevel = IF Absent(f.LOG_LEVEL) THEN "trace" ELSE f.LOG_LEVEL
             /\ config.Port = IF Absent(f.PORT) THEN "3003" ELSE f.PORT
             /\ config.IotHubConnectionString = f.IOTHUB_CONNECTION_STRING
             /\ instance' = config]_vars

\* C13 witness: a file that gives CONSOLE_REPORTING, omits LOG_LEVEL and
\* leaves PORT empty was published as 'server', 'trace', '3003'.
C13_Witness ==
    /\ obs.op = "initializeFromFile"
    /\ obs.file = UserConfig("a=b;HOSTNAME=c", "server", Undefined, "")
    /\ instance # NULL
    /\ instance.IotHubConnectionString = "a=b;HOSTNAME=c"
    /\ instance.ConsoleReporting = "server"
    /\ instance.LogLevel = "trace"
    /\ instance.Port = "3003"

\* The step is a run of initializeFromEnvironment, called directly or by
\* initialize.
EnvironmentStep ==
    /\ obs'.op \in {"initialize", "initializeFromEnvironment"}
    /\ obs'.ran = <<"initializeFromEnvironment">>

\* C14 as stated: initializeFromEnvironment always returns a Config with
\* the connection string of the environment, 'both', 'trace', and the port
\* it was given (the PORT of the environment) as it is.
C14_EnvironmentPortVerbatim ==
    [][EnvironmentStep =>
          /\ obs'.outcome.kind = "returned"
          /\ obs'.outcome.value.IotHubConnectionString = obs'.env.IOTHUB_CONNECTION_STRING
          /\ obs'.outcome.value.ConsoleReporting = "both"
          /\ obs'.outcome.value.LogLevel = "trace"
          /\ obs'.outcome.value.Port = obs'.env.PORT]_vars

\* C14: initializeFromEnvironment always returns and publishes a Config
\* with the connection string of the environment whatever it is (not set,
\* empty, without HostName=), ConsoleReporting 'both', LogLevel 'trace',
\* and as Port the PORT of the environment when that is set and not empty,
\* '3003' when it is not.
C14_EnvironmentPortOrDefault ==
    [][EnvironmentStep =>
          /\ obs'.outcome.kind = "returned"
          /\ obs'.outcome.value.IotHubConnectionString = obs'.env.IOTHUB_CONNECTION_STRING
          /\ obs'.outcome.value.ConsoleReporting = "both"
          /\ obs'.outcome.value.LogLevel = "trace"
          /\ obs'.outcome.value.Port =
                IF Absent(obs'.env.PORT) THEN "3003" ELSE obs'.env.PORT
          /\ instance' = obs'.outcome.value]_vars

\* C14 witness: initializeFromEnvironment called with neither PORT nor
\* IOTHUB_CONNECTION_STRING set published a Config with Port '3003' and no
\* connection string.
C14_Witness ==
    /\ obs.op = "initializeFromEnvironment"
    /\ obs.env.PORT = Undefined
    /\ obs.env.IOTHUB_CONNECTION_STRING = Undefined
    /\ instance # NULL
    /\ instance.Port = "3003"
    /\ instance.IotHubConnectionString = Undefined
    /\ instance.ConsoleReporting = "both"

\* C15: a run of initializeFromFile with no user-config.json throws the
\* "Unable to find the user configuration" error, whatever else holds; and
\* a run of initializeFromFile that fails has failed when the call comes
\* back, with one of the two errors of the file: it leaves no activation
\* waiting, starts no delay, issues no fetch and writes no warning.
C15_FileFailsAtOnce ==
    [][FileStep =>
          /\ ~obs'.file.exists => obs'.outcome = Thrown(MissingConfigFileError)
          /\ obs'.outcome.kind \in {"returned", "thrown"}
          /\ obs'.outcome.kind = "thrown" =>
                /\ obs'.outcome.error \in
                      {MissingConfigFileError, InvalidConnectionStringError}
                /\ obs'.outcome.error = MissingConfigFileError <=> ~obs'.file.exists
          /\ \A c \in Calls :
                /\ pc'[c] = "idle"
                /\ timer'[c] = 0 /\ pauses'[c] = 0
                /\ warnings'[c] = 0 /\ discoveryFetches'[c] = 0
                /\ request'[c] = <<>>]_vars

\* C15 witness: with a Config already published, initializeFromFile found
\* no file and threw; nothing is waiting to retry.
C15_Witness ==
    /\ obs.op = "initializeFromFile"
    /\ ~obs.file.exists
    /\ obs.outcome = Thrown(MissingConfigFileError)
    /\ instance # NULL
    /\ \A c \in Calls : pc[c] = "idle" /\ pauses[c] = 0 /\ warnings[c] = 0

\* C16: each successful resolution assigns Config.instance, so that the
\* last to succeed is the one get() returns, also when two calls of
\* initializeFromConfigService overlap: identities are given in the order
\* of the successes, the Config a returned call holds is the published one
\* exactly when no success came after it, and get() returns the published
\* one. The Config a call has returned stays as it was built (from that
\* call's settings resource and port) whatever is published after it.
C16_LastWriterWins ==
    /\ [](\A c \in Calls :
             /\ (obs.op = "get" /\ instance # NULL) =>
                   /\ obs.outcome = Returned(instance)
                   /\ instance.id = nextId - 1
             /\ pc[c] = "returned" =>
                   /\ result[c].kind = "returned"
                   /\ result[c].value.id < nextId
                   /\ (result[c].value.id = nextId - 1) <=> (instance = result[c].value)
                   /\ result[c].value.IotHubConnectionString = received[c].body.iotHubConnStr
                   /\ result[c].value.Port = port[c]
                   /\ \A d \in Calls \ {c} :
                         pc[d] = "returned" => result[d].value.id # result[c].value.id)
    /\ [][\A c \in Calls : pc[c] = "returned" => result'[c] = result[c]]_vars

\* C16 witness: two calls that both retried have both returned, c2 first
\* and c1 after it with another hub; get() returned the Config of c1, and
\* the Config c2 returned still has its own hub.
C16_Witness ==
    /\ pc["c1"] = "returned" /\ pc["c2"] = "returned"
    /\ failures["c1"] >= 1 /\ failures["c2"] >= 1
    /\ result["c2"].value.id = 1 /\ result["c1"].value.id = 2
    /\ result["c2"].value.IotHubConnectionString = "HostName=hub1"
    /\ result["c1"].value.IotHubConnectionString = "HostName=hub2"
    /\ obs.op = "get"
    /\ obs.outcome = Returned(result["c1"].value)

\* C17: one pause of 5 seconds (5000 ms) separates every two consecutive
\* attempts. A failed attempt with more than one retry left starts one
\* pause, with the count of retries one lower, and the next attempt starts
\* when it elapses, with that same count; the failed attempt with one
\* retry left throws without a pause. No pause is pending during an
\* attempt or after the call ended: the pauses started are one fewer than
\* the attempts started, so none comes before the first attempt or after a
\* success, and an exhausted call has paused 59 times.
C17_OnePauseBetweenAttempts ==
    /\ [](\A c \in Calls :
             /\ pc[c] = "idle" => pauses[c] = 0 /\ timer[c] = 0
             /\ pc[c] \in {"awaitDiscovery", "awaitSettings", "returned"} =>
                   /\ pauses[c] = discoveryFetches[c] - 1
                   /\ pauses[c] = failures[c]
                   /\ timer[c] = 0
             /\ pc[c] = "delay" =>
                   /\ pauses[c] = discoveryFetches[c]
                   /\ timer[c] = 5 * 1000
                   /\ numRetries[c] = 60 - discoveryFetches[c]
                   /\ numRetries[c] >= 1
             /\ pc[c] = "thrown" =>
                   /\ pauses[c] = 59
                   /\ discoveryFetches[c] = 60
                   /\ timer[c] = 0)
    /\ [][\A c \in Calls :
             /\ AttemptFails(c) =>
                   IF numRetries[c] > 1
                   THEN /\ pc'[c] = "delay"
                        /\ pauses'[c] = pauses[c] + 1
                        /\ numRetries'[c] = numRetries[c] - 1
                   ELSE /\ pc'[c] = "thrown"
                        /\ pauses'[c] = pauses[c]
             /\ pc[c] = "delay" /\ pc'[c] # "delay" =>
                   /\ pc'[c] = "awaitDiscovery"
                   /\ discoveryFetches'[c] = discoveryFetches[c] + 1
                   /\ numRetries'[c] = numRetries[c]
                   /\ pauses'[c] = pauses[c]
             /\ pc[c] # "delay" /\ ~AttemptFails(c) /\ pc'[c] # "idle" =>
                   pauses'[c] = pauses[c] /\ timer'[c] = 0]_vars

\* C17 witness: a call that failed 60 times has thrown after 59 pauses,
\* with no timer left pending.
C17_Witness ==
    \E c \in Calls :
       /\ pc[c] = "thrown"
       /\ numRetries[c] = 0
       /\ pauses[c] = 59
       /\ timer[c] = 0

\* The discovery response r is a resource with a settings:list relation.
HasSettingsList(r) ==
    /\ r # NoResponse
    /\ r.err = NoErr
    /\ r.body # NoBody
    /\ "_links" \in DOMAIN r.body
    /\ "settings:list" \in DOMAIN r.body._links

\* C18: in every attempt the discovery resource is requested first, once;
\* the settings are requested, once, only when the discovery response of
\* that attempt has come and has a settings:list relation, and from the
\* base URL followed by the href of that relation; an attempt whose
\* discovery fetch failed or gave no such relation has requested nothing
\* but the discovery resource.
C18_SettingsFetchFollowsDiscovery ==
    \A c \in Calls :
       /\ pc[c] = "idle" => fetched[c] = <<>>
       /\ pc[c] # "idle" =>
             /\ Len(fetched[c]) \in {1, 2}
             /\ fetched[c][1] = <<configUrl[c], "/api/discovery">>
             /\ Len(fetched[c]) = 2 <=> HasSettingsList(discovered[c])
             /\ Len(fetched[c]) = 2 =>
                   fetched[c][2] =
                      <<configUrl[c], discovered[c].body._links["settings:list"].href>>
       /\ pc[c] = "awaitDiscovery" =>
             /\ discovered[c] = NoResponse
             /\ request[c] = fetched[c][1]
       /\ pc[c] = "awaitSettings" =>
             /\ HasSettingsList(discovered[c])
             /\ received[c] = NoResponse
             /\ request[c] = fetched[c][2]
       /\ pc[c] = "returned" => Len(fetched[c]) = 2
       /\ pc[c] \in {"delay", "thrown", "returned"} =>
             /\ request[c] = <<>>
             /\ received[c] # NoResponse <=> Len(fetched[c]) = 2

\* C18 witness: on its second attempt a call is fetching the settings from
\* the href '/settings?all' that the discovery resource gave this time.
C18_Witness ==
    \E c \in Calls :
       /\ pc[c] = "awaitSettings"
       /\ discoveryFetches[c] = 2
       /\ discovered[c].body._links["settings:list"].href = "/settings?all"
       /\ request[c] = <<"http://config", "/settings?all">>

\* The Config has a connection string, a ConsoleReporting, a LogLevel and
\* the three fields of Auth, none of them empty.
CompleteConfig(config) ==
    /\ Present(config.IotHubConnectionString)
    /\ Present(config.ConsoleReporting)
    /\ Present(config.LogLevel)
    /\ config.Auth # NoAuth
    /\ Present(config.Auth.loginUrl)
    /\ Present(config.Auth.mongoUri)
    /\ Present(config.Auth.sessionSecret)

\* C19: a call of initializeFromConfigService has returned only from an
\* attempt whose settings resource had iotHubConnStr, loginUrl, mongoUri
\* and sessionSecret present and not empty and a device-management object
\* with consoleReporting and logLevel not empty; the Config it returned,
\* and any Config that is published by this strategy, has a connection
\* string, ConsoleReporting, LogLevel and the three Auth fields, none empty.
C19_PublishedOnlyWhenComplete ==
    /\ \A c \in Calls :
          pc[c] = "returned" =>
             /\ CompleteSettings(received[c])
             /\ result[c].kind = "returned"
             /\ CompleteConfig(result[c].value)
    /\ (instance # NULL /\ lastSuccess.strategy = "initializeFromConfigService") =>
          CompleteConfig(instance)

\* C19 witness: an attempt was refused for its mongoUri, and the call then
\* returned a Config with all the fields from a later attempt.
C19_Witness ==
    \E c \in Calls :
       /\ pc[c] = "returned"
       /\ lastWarning[c] = WarningLine(MissingSettingError("mongoUri"))
       /\ instance = result[c].value
       /\ instance.Auth.mongoUri = "mongodb://db"

\* C20: a resolution that fails does not assign Config.instance. The step
\* in which an attempt of initializeFromConfigService fails, be it the one
\* that exhausts the budget, and a run of initializeFromFile that throws
\* either of its errors leave Config.instance, and so what get() gives,
\* as they were; Config.instance changes only in the step in which a
\* resolution returns its Config.
C20_FailureLeavesSingleton ==
    [][/\ \A c \in Calls :
             AttemptFails(c) =>
                /\ instance' = instance
                /\ GetOutcome(instance') = GetOutcome(instance)
       /\ (FileStep /\ obs'.outcome.kind = "thrown") =>
             /\ instance' = instance
             /\ GetOutcome(instance') = GetOutcome(instance)
       /\ instance' # instance =>
             \/ \E c \in Calls :
                   /\ pc[c] = "awaitSettings" /\ pc'[c] = "returned"
                   /\ instance' = result'[c].value
             \/ /\ obs'.op \in {"initialize", "initializeFromFile",
                                 "initializeFromEnvironment"}
                /\ obs'.outcome = Returned(instance')]_vars

\* C20 witness: with the Config of a file published, a call of
\* initializeFromConfigService exhausted its budget, and get() still
\* returns the Config of the file.
C20_Witness ==
    /\ \E c \in Calls : pc[c] = "thrown" /\ failures[c] = 60
    /\ instance # NULL
    /\ lastSuccess.strategy = "initializeFromFile"
    /\ obs.op = "get"
    /\ obs.outcome = Returned(instance)
====
